---- MODULE Spec2Model ----
(***************************************************************************)
(* Model of the Stingray sensors HAL (sensors/sensors.c).                  *)
(*                                                                         *)
(* The module is modelled under several specifications that share one     *)
(* state, because the C code keeps its contexts in unrelated structs and   *)
(* runs them on different threads:                                         *)
(*   Spec        sensors_control_context_t, one caller: control__activate  *)
(*   SpecCtl     one caller: control__activate, control__set_delay,        *)
(*               control__wake                                             *)
(*   SpecData    sensors_data_context_t: data__data_open,                  *)
(*               data__data_close, data__poll, pick_sensor                 *)
(*   SpecConc    two threads inside control__activate at once              *)
(*   SpecCapture poll_thread feeding the uinput device, next to the        *)
(*               control calls                                             *)
(*   SpecWake    control__wake, poll_thread and a data__poll reading the   *)
(*               uinput device, with the fairness of the two threads       *)
(*   SpecPipe    control__activate, the accelerometer driver,              *)
(*               poll_thread, the uinput device and data__poll, end to end *)
(*   SpecProx    data__poll on the records of the proximity sensor         *)
(*   SpecStray   poll_thread and data__poll on sources that also deliver   *)
(*               records they have no case for                             *)
(*                                                                         *)
(* A 32-bit sensor mask is modelled as the set of its set bit positions.   *)
(* A float is modelled as the exact rational <<numerator, denominator>>.   *)
(***************************************************************************)
EXTENDS Integers, Sequences, FiniteSets, TLC

(***************************************************************************)
(* Program constants                                                       *)
(***************************************************************************)
MAX_NUM_SENSORS == 6

SENSORS_HANDLE_BASE == 0

ID_A == 0

ID_M == 1

ID_O == 2

ID_T == 3

ID_P == 4

ID_L == 5

MAX_NUM_DRIVERS == 4

ID_LIS == 0

ID_AKM == 1

ID_SFH == 2

SENSORS_ACCELERATION == {ID_A}

SENSORS_MAGNETIC_FIELD == {ID_M}

SENSORS_ORIENTATION == {ID_O}

SENSORS_TEMPERATURE == {ID_T}

SENSORS_PROXIMITY == {ID_P}

SENSORS_LIGHT == {ID_L}

SUPPORTED_SENSORS == 0 .. (MAX_NUM_SENSORS - 1)

\* static const struct driver_t dDriverList[]: three entries, indexed 0..2
dDriverList ==
    [d \in {ID_LIS, ID_AKM, ID_SFH} |->
        CASE d = ID_LIS -> [name |-> "accelerometer", loc |-> "/dev/kxtf9",
                            mask |-> SENSORS_ACCELERATION]
          [] d = ID_AKM -> [name |-> "compass", loc |-> "/dev/akm8973_aot",
                            mask |-> SENSORS_MAGNETIC_FIELD \cup SENSORS_ORIENTATION
                                      \cup SENSORS_TEMPERATURE]
          [] d = ID_SFH -> [name |-> "max9635", loc |-> "",
                            mask |-> SENSORS_LIGHT]]

(***************************************************************************)
(* Bounds of the model                                                     *)
(***************************************************************************)
\* handles offered to set_active range HandleSlack below and above the valid ones
HandleSlack == 1

Handles == (SENSORS_HANDLE_BASE - HandleSlack) ..
           (SENSORS_HANDLE_BASE + MAX_NUM_SENSORS - 1 + HandleSlack)

\* errno values a failing ioctl may leave
Errnos == {5}

\* periods offered to set_delay, in ms
Delays == {20, 200}

\* the handles offered to set_active next to set_delay and wake: a sensor
\* of the accelerometer, two of the compass, and the first invalid handle
CtlHandles == {ID_A, ID_M, ID_O, SENSORS_HANDLE_BASE + MAX_NUM_SENSORS}

\* control__wake calls in one behaviour
MaxWakes == 2

(***************************************************************************)
(* State                                                                   *)
(***************************************************************************)
VARIABLES
    active_sensors,   \* dev->active_sensors (ActivationMask)
    active_drivers,   \* dev->active_drivers (DriverMask)
    dev_fd,           \* dev->dev_fd[MAX_NUM_DRIVERS], -1 when closed
    kxtf9_enabled,    \* power state last accepted by the accelerometer driver
    ctl_call,         \* the last control call: its arguments and the state it found
    ctl_ret,          \* the value the last control call returned
    ctl_ops,          \* the device operations the last control call performed
    ctl_prev,         \* the control call before the last: arguments, result, commands
    events_fd,        \* data dev->events_fd, -1 when closed
    sensors,          \* data dev->sensors[MAX_NUM_SENSORS], the stored samples
    pendingSensors,   \* data dev->pendingSensors (PendingMask)
    pc,               \* where the consumer is: "idle", or "read" inside data__poll
    new_sensors,      \* data__poll's local new_sensors (the touched set)
    values,           \* the caller's buffer: <<>> or <<the sample copied out>>
    poll_ret,         \* <<>> or <<the value the last data__poll returned>>
    prev_ret,         \* poll_ret of the data__poll call before the last
    data_op,          \* the last operation on the data context
    call_pending,     \* pendingSensors when the last data__poll was called
    pick_pending,     \* pendingSensors when pick_sensor was last entered
    last_ev,          \* the last raw event read
    last_raw,         \* per event code, the last raw value read since data_open
    last_sync,        \* the last boundary event that made sensors pending
    nread,            \* number of raw events read so far
    owed,             \* sensors with a field read since the last boundary read
    thr,              \* per calling thread: where it is inside control__activate
    base_active,      \* active_sensors before the first concurrent call began
    uinput,           \* dev->uinput, -1 until control__open_data_source
    cap_pc,           \* poll_thread: "none" (not created), "start", "run",
                      \* "exited", "crashed"
    cap_i,            \* poll_thread's i in its start-up loop
    filter_sensors,   \* dev->filter_sensors[MAX_NUM_SENSORS], raw values
    cap_new,          \* poll_thread's local new_sensors
    raw_q,            \* events written into the accelerometer input device
    sink,             \* events written to dev->uinput and not yet read
    ncap,             \* number of driver events poll_thread has read
    cap_ev,           \* the last event poll_thread read, with its device
    unsynced,         \* per device: sensors it touched since its own last EV_SYN
    nwake             \* number of control__wake calls so far

ctl_vars == <<active_sensors, active_drivers, dev_fd, kxtf9_enabled,
              ctl_call, ctl_ret, ctl_ops, ctl_prev>>

data_vars == <<events_fd, sensors, pendingSensors, pc, new_sensors, values,
               poll_ret, prev_ret, data_op, call_pending, pick_pending,
               last_ev, last_raw, last_sync, nread, owed>>

conc_vars == <<thr, base_active>>

cap_vars == <<uinput, cap_pc, cap_i, filter_sensors, cap_new, raw_q, sink, ncap,
              cap_ev, unsynced, nwake>>

vars == <<ctl_vars, data_vars, conc_vars, cap_vars>>

NoCall == [op |-> "none", handle |-> 0, enabled |-> FALSE,
           old_active |-> {}, old_drivers |-> {},
           old_fd |-> [d \in 0 .. (MAX_NUM_DRIVERS - 1) |-> -1]]

NoPrev == [op |-> "none", handle |-> 0, enabled |-> FALSE, ret |-> 0, cmds |-> 0]

(***************************************************************************)
(* open_dev / close_dev                                                    *)
(* A step record s carries the call's working state:                       *)
(*   fd  the dev_fd array, err the local err, ops the operations so far,   *)
(*   pwr the accelerometer's power state.                                  *)
(***************************************************************************)
DevFd(d) == 3 + d

\* what open(dDriverList[d].loc, O_RDONLY) can return: the empty path of
\* the third entry never opens (ENOENT)
OpenResults(d) ==
    IF dDriverList[d].loc = "" THEN {-1} ELSE {-1, DevFd(d)}

Op(name, d, arg, res) == [op |-> name, dev |-> d, arg |-> arg, res |-> res]

open_dev(s, dev_num, res) ==
    IF s.fd[dev_num] < 0
    THEN [s EXCEPT !.fd[dev_num] = res,
                   !.ops = Append(@, Op("open", dev_num, 0, res))]
    ELSE s

close_dev_Always(s, dev_num, enabled) ==
    IF s.fd[dev_num] >= 0
    THEN [s EXCEPT !.fd[dev_num] = -1,
                   !.ops = Append(@, Op("close", dev_num, 0, 0))]
    ELSE s

close_dev(s, dev_num, enabled) ==
    IF s.fd[dev_num] >= 0 /\ (enabled \cap dDriverList[dev_num].mask) = {}
    THEN [s EXCEPT !.fd[dev_num] = -1,
                   !.ops = Append(@, Op("close", dev_num, 0, 0))]
    ELSE s

(***************************************************************************)
(* control__activate                                                       *)
(***************************************************************************)
ValidHandle_OffByOne(handle) ==
    ~ (handle < SENSORS_HANDLE_BASE
       \/ handle > SENSORS_HANDLE_BASE + MAX_NUM_SENSORS)

ValidHandle(handle) ==
    ~ (handle < SENSORS_HANDLE_BASE
       \/ handle >= SENSORS_HANDLE_BASE + MAX_NUM_SENSORS)

NewActive(current_active, handle, enabled) ==
    LET handle_mask  == {handle}
        enabled_mask == IF enabled THEN handle_mask ELSE {}
    IN  (current_active \ handle_mask) \cup (enabled_mask \cap handle_mask)

NewEnabled_NoDependency(new_active) == new_active

NewEnabled_AccelAlways(new_active) == new_active \cup SENSORS_ACCELERATION

NewEnabled(new_active) ==
    IF (new_active \cap SENSORS_ORIENTATION) /= {}
    THEN new_active \cup SENSORS_ACCELERATION
    ELSE new_active

ChangedEnabled_AgainstNothing(current_enabled, new_enabled) == new_enabled

ChangedEnabled(current_enabled, new_enabled) ==
    (current_enabled \ new_enabled) \cup (new_enabled \ current_enabled)

\* KXTF9_IOCTL_SET_ENABLE: errno = 0 when the driver accepts the command
kxtf9_set_enable(s, flags, errno) ==
    IF errno = 0
    THEN [s EXCEPT !.pwr = (flags = 1),
                   !.ops = Append(@, Op("ioctl", ID_LIS, flags, 0))]
    ELSE [s EXCEPT !.err = 0 - errno,
                   !.ops = Append(@, Op("ioctl", ID_LIS, flags, 0 - errno))]

AccelGroup(s, new_enabled, o) ==
    LET s1 == open_dev(s, ID_LIS, o.open[ID_LIS]) IN
    IF s1.fd[ID_LIS] >= 0
    THEN LET flags == IF (new_enabled \cap SENSORS_ACCELERATION) /= {} THEN 1 ELSE 0
             s2    == kxtf9_set_enable(s1, flags, o.errno)
         IN  close_dev(s2, ID_LIS, new_enabled)
    ELSE [s1 EXCEPT !.err = s1.fd[ID_LIS]]

ProxGroup(s, new_enabled, o) ==
    LET s1 == open_dev(s, ID_SFH, o.open[ID_SFH]) IN
    IF s1.fd[ID_SFH] >= 0
    THEN close_dev(s1, ID_SFH, new_enabled)
    ELSE [s1 EXCEPT !.err = s1.fd[ID_SFH]]

AkmGroup(s, new_enabled, o) ==
    LET s1 == open_dev(s, ID_AKM, o.open[ID_AKM])
        s2 == IF s1.fd[ID_AKM] >= 0 THEN s1 ELSE [s1 EXCEPT !.err = s1.fd[ID_AKM]]
    IN  close_dev(s2, ID_AKM, new_enabled)

\* the body of  if (changed_enabled) { ... }  up to the test of err
DeviceGroups(s, changed_enabled, new_enabled, o) ==
    LET s1 == IF (changed_enabled \cap SENSORS_ACCELERATION) /= {}
              THEN AccelGroup(s, new_enabled, o) ELSE s
        s2 == IF (changed_enabled \cap SENSORS_PROXIMITY) /= {}
              THEN ProxGroup(s1, new_enabled, o) ELSE s1
        s3 == IF (changed_enabled \cap (SENSORS_ORIENTATION \cup SENSORS_TEMPERATURE
                                         \cup SENSORS_MAGNETIC_FIELD)) /= {}
              THEN AkmGroup(s2, new_enabled, o) ELSE s2
    IN  s3

\* if (err < 0) return err;  inside  if (changed_enabled) { ... }
ReturnValue(changed_enabled, err) ==
    IF changed_enabled /= {} /\ err < 0 THEN err ELSE 0

Commits_BeforeErrTest(changed_enabled, err) == TRUE

\* the two assignments to dev->active_sensors and dev->active_drivers are
\* reached only when the call did not return err
Commits(changed_enabled, err) == ~ (changed_enabled /= {} /\ err < 0)

\* what the environment decides during one call: the result of each open()
\* and the errno of the accelerometer ioctl (0: accepted)
Oracles ==
    [open : {f \in [{ID_LIS, ID_AKM, ID_SFH} -> {-1} \cup {DevFd(d) : d \in 0 .. 2}] :
                \A d \in {ID_LIS, ID_AKM, ID_SFH} : f[d] \in OpenResults(d)},
     errno : {0} \cup Errnos]

\* an oracle differs from the default (open fails, ioctl accepted) only in
\* the answers the call really asks for
RelevantTo(o, ch) ==
    LET lis == (ch \cap SENSORS_ACCELERATION) /= {}
        akm == (ch \cap (SENSORS_ORIENTATION \cup SENSORS_TEMPERATURE
                          \cup SENSORS_MAGNETIC_FIELD)) /= {}
    IN  /\ o.open[ID_LIS] /= -1 => (lis /\ dev_fd[ID_LIS] < 0)
        /\ o.open[ID_AKM] /= -1 => (akm /\ dev_fd[ID_AKM] < 0)
        /\ o.errno /= 0 => (lis /\ (dev_fd[ID_LIS] >= 0 \/ o.open[ID_LIS] >= 0))

Relevant(o, handle, enabled) ==
    RelevantTo(o, IF ValidHandle(handle)
                  THEN ChangedEnabled(active_drivers,
                           NewEnabled(NewActive(active_sensors, handle, enabled)))
                  ELSE {})

Cmds(ops) == Cardinality({i \in 1 .. Len(ops) : ops[i].op = "ioctl"})

Record(handle, enabled) ==
    /\ ctl_call' = [op |-> "activate", handle |-> handle, enabled |-> enabled,
                    old_active |-> active_sensors, old_drivers |-> active_drivers,
                    old_fd |-> dev_fd]
    /\ ctl_prev' = [op |-> ctl_call.op, handle |-> ctl_call.handle,
                    enabled |-> ctl_call.enabled, ret |-> ctl_ret,
                    cmds |-> Cmds(ctl_ops)]

\* control__activate, for a valid handle, from the two masks it read
\* (current_active, current_enabled) to its return: the device handles and
\* the power state it leaves, its operations, its return value, and the
\* masks it stores when it reaches the two assignments
ActivateOutcome(current_active, current_enabled, handle, enabled, o) ==
    LET new_active      == NewActive(current_active, handle, enabled)
        new_enabled     == NewEnabled(new_active)
        changed_enabled == ChangedEnabled(current_enabled, new_enabled)
        s0 == [fd |-> dev_fd, err |-> 0, ops |-> <<>>, pwr |-> kxtf9_enabled]
        s  == IF changed_enabled /= {}
              THEN DeviceGroups(s0, changed_enabled, new_enabled, o)
              ELSE s0
    IN  [fd |-> s.fd, pwr |-> s.pwr, ops |-> s.ops,
         ret |-> ReturnValue(changed_enabled, s.err),
         commits |-> Commits(changed_enabled, s.err),
         new_active |-> new_active, new_enabled |-> new_enabled]

control__activate(handle, enabled, o) ==
    /\ Record(handle, enabled)
    /\ IF ~ ValidHandle(handle)
       THEN /\ ctl_ret' = -1
            /\ ctl_ops' = <<>>
            /\ UNCHANGED <<active_sensors, active_drivers, dev_fd, kxtf9_enabled>>
       ELSE LET r == ActivateOutcome(active_sensors, active_drivers,
                                     handle, enabled, o)
            IN  /\ dev_fd' = r.fd
                /\ kxtf9_enabled' = r.pwr
                /\ ctl_ops' = r.ops
                /\ ctl_ret' = r.ret
                /\ IF r.commits
                   THEN /\ active_sensors' = r.new_active
                        /\ active_drivers' = r.new_enabled
                   ELSE UNCHANGED <<active_sensors, active_drivers>>

\* a call of control__activate with a handle of H
SetActiveOf(H) ==
    /\ \E handle \in H, enabled \in BOOLEAN, o \in Oracles :
            /\ Relevant(o, handle, enabled)
            /\ control__activate(handle, enabled, o)
    /\ UNCHANGED <<data_vars, conc_vars, cap_vars>>

SetActive == SetActiveOf(Handles)


(***************************************************************************)
(* control__set_delay                                                      *)
(***************************************************************************)
RecordCall(op, arg) ==
    /\ ctl_call' = [op |-> op, handle |-> arg, enabled |-> FALSE,
                    old_active |-> active_sensors, old_drivers |-> active_drivers,
                    old_fd |-> dev_fd]
    /\ ctl_prev' = [op |-> ctl_call.op, handle |-> ctl_call.handle,
                    enabled |-> ctl_call.enabled, ret |-> ctl_ret,
                    cmds |-> Cmds(ctl_ops)]

DelayDevices_EveryOpen(fd) == {d \in {ID_LIS, ID_AKM} : fd[d] >= 0}

\* the devices control__set_delay sends an ioctl to: the accelerometer when
\* its handle is open; the ioctl to the compass is commented out
DelayDevices(fd) == {d \in {ID_LIS} : fd[d] >= 0}

\* the ioctls of one call, in the order of the code, and the value of err
\* after them: a failing ioctl assigns err = -errno
DelayOps(devs, ms, errno) ==
    LET order == <<ID_LIS, ID_AKM>>
        sel   == SelectSeq(order, LAMBDA d : d \in devs)
    IN  [i \in 1 .. Len(sel) |-> Op("set_delay", sel[i], ms, 0 - errno[sel[i]])]

RECURSIVE LastErr(_, _)
LastErr(ops, err) ==
    IF ops = <<>> THEN err
    ELSE LastErr(Tail(ops), IF Head(ops).res < 0 THEN Head(ops).res ELSE err)

control__set_delay(ms, errno) ==
    LET ops == DelayOps(DelayDevices(dev_fd), ms, errno) IN
    /\ RecordCall("set_delay", ms)
    /\ ctl_ops' = ops
    /\ ctl_ret' = LastErr(ops, 0)
    /\ UNCHANGED <<active_sensors, active_drivers, dev_fd, kxtf9_enabled>>

SetDelay ==
    /\ \E ms \in Delays, errno \in [{ID_LIS, ID_AKM} -> {0} \cup Errnos] :
            /\ \A d \in {ID_LIS, ID_AKM} :
                    errno[d] /= 0 => d \in DelayDevices(dev_fd)
            /\ control__set_delay(ms, errno)
    /\ UNCHANGED <<data_vars, conc_vars, cap_vars>>

(***************************************************************************)
(* control__wake                                                           *)
(***************************************************************************)
\* sizeof(struct input_event) on the 32-bit target: what write() returns
SizeofInputEvent == 16

\* send_event(fd, EV_SYN, SYN_CONFIG, 0): the record is memset to 0
WakeEvent == [type |-> "EV_SYN", code |-> "SYN_CONFIG", value |-> 0,
              sec |-> 0, usec |-> 0]

Inject_Once(q, ev) == IF q = <<>> THEN <<ev>> ELSE q

\* write() of one record into an input device: the record joins the
\* device's stream
Inject(q, ev) == Append(q, ev)

\* outcome "noinput": open_input finds no accelerometer device, the call
\* returns err = 0; "written": write() accepts the record; "failed": write()
\* returns -1
control__wake(outcome) ==
    /\ RecordCall("wake", 0)
    /\ ctl_ops' = <<>>
    /\ ctl_ret' = CASE outcome = "noinput" -> 0
                    [] outcome = "written" -> SizeofInputEvent
                    [] OTHER -> -1
    /\ raw_q' = IF outcome = "written" THEN Inject(raw_q, WakeEvent) ELSE raw_q
    /\ UNCHANGED <<active_sensors, active_drivers, dev_fd, kxtf9_enabled>>

Wake ==
    /\ nwake < MaxWakes
    /\ nwake' = nwake + 1
    /\ \E outcome \in {"noinput", "written", "failed"} : control__wake(outcome)
    /\ UNCHANGED <<data_vars, conc_vars>>
    /\ UNCHANGED <<uinput, cap_pc, cap_i, filter_sensors, cap_new, sink, ncap,
                   cap_ev, unsynced>>

(***************************************************************************)
(* Two callers inside control__activate at once.  The function takes no    *)
(* lock: a caller reads the two masks (lines 565-577), and later, after    *)
(* its device operations, stores them (lines 654-655).  ThreadLoad is the  *)
(* first part, ThreadRun the rest; each is taken as one step.              *)
(***************************************************************************)
Threads == {1, 2}

IdleThread == [pc |-> "idle", handle |-> -1, enabled |-> FALSE,
               current_active |-> {}, current_enabled |-> {}, ret |-> 0]

\* uint32_t current_active = dev->active_sensors; ...
\* uint32_t current_enabled = dev->active_drivers;
ThreadLoad(t) ==
    /\ thr[t].pc = "idle"
    /\ \E handle \in SENSORS_HANDLE_BASE .. (SENSORS_HANDLE_BASE + MAX_NUM_SENSORS - 1),
          enabled \in BOOLEAN :
            /\ \A u \in Threads \ {t} : thr[u].handle /= handle
            /\ thr' = [thr EXCEPT ![t] =
                          [pc |-> "loaded", handle |-> handle, enabled |-> enabled,
                           current_active |-> active_sensors,
                           current_enabled |-> active_drivers, ret |-> 0]]
    /\ base_active' = IF \A u \in Threads : thr[u].pc = "idle"
                      THEN active_sensors ELSE base_active
    /\ UNCHANGED <<ctl_vars, data_vars, cap_vars>>

\* the device groups, the test of err and the two stores
ThreadRun(t) ==
    /\ thr[t].pc = "loaded"
    /\ \E o \in Oracles :
          LET c == thr[t]
              r == ActivateOutcome(c.current_active, c.current_enabled,
                                   c.handle, c.enabled, o)
          IN  /\ RelevantTo(o, ChangedEnabled(c.current_enabled, r.new_enabled))
              /\ dev_fd' = r.fd
              /\ kxtf9_enabled' = r.pwr
              /\ IF r.commits
                 THEN /\ active_sensors' = r.new_active
                      /\ active_drivers' = r.new_enabled
                 ELSE UNCHANGED <<active_sensors, active_drivers>>
              /\ thr' = [thr EXCEPT ![t].pc = "done", ![t].ret = r.ret]
    /\ UNCHANGED <<ctl_call, ctl_ret, ctl_ops, ctl_prev, base_active>>
    /\ UNCHANGED <<data_vars, cap_vars>>

\* one call made before the two callers start
FirstCall ==
    /\ ctl_call.op = "none"
    /\ \A t \in Threads : thr[t].pc = "idle"
    /\ SetActive

(***************************************************************************)
(* Floats as exact rationals in lowest terms                               *)
(***************************************************************************)
RECURSIVE Gcd(_, _)
Gcd(a, b) == IF b = 0 THEN a ELSE Gcd(b, a % b)

Abs(n) == IF n < 0 THEN 0 - n ELSE n

Rat(n, d) == LET g == Gcd(Abs(n), d) IN <<n \div g, d \div g>>

Zero == <<0, 1>>

Scale_Counts(value, c) == Rat(value, 1)

\* int * float
Scale(value, c) == Rat(value * c[1], c[2])

\* a <= b for rationals with positive denominators
Leq(a, b) == a[1] * b[2] <= b[1] * a[2]

Neg(c) == <<0 - c[1], c[2]>>

RECURSIVE Pow2(_)
Pow2(k) == IF k = 0 THEN 1 ELSE 2 * Pow2(k - 1)

\* the number of binary digits of n >= 0
RECURSIVE BitLen(_)
BitLen(n) == IF n = 0 THEN 0 ELSE 1 + BitLen(n \div 2)

\* n / 2^k rounded to the nearest integer, ties to even
RoundEven(n, k) ==
    LET q == n \div Pow2(k)
        r == n % Pow2(k)
        h == Pow2(k - 1)
    IN  IF r > h \/ (r = h /\ q % 2 = 1) THEN q + 1 ELSE q

RoundF32_Exact(x) == x

\* the binary32 value nearest to x, a rational whose denominator is a
\* power of two: the numerator keeps 24 significant bits (the products the
\* model forms stay in the normal range)
RoundF32(x) ==
    LET n == Abs(x[1])
        k == BitLen(n) - 24
        m == IF k <= 0 THEN n ELSE RoundEven(n, k) * Pow2(k)
    IN  Rat(IF x[1] < 0 THEN 0 - m ELSE m, x[2])

\* int * float, as a float
ScaleF32(value, c) == RoundF32(Scale(value, c))

(***************************************************************************)
(* Raw events and conversion factors                                       *)
(***************************************************************************)
EVENT_TYPE_ACCEL_X == "ABS_X"

EVENT_TYPE_ACCEL_Y == "ABS_Y"

EVENT_TYPE_ACCEL_Z == "ABS_Z"

EVENT_TYPE_ACCEL_STATUS == "ABS_WHEEL"

EVENT_TYPE_YAW == "ABS_RX"

EVENT_TYPE_PITCH == "ABS_RY"

EVENT_TYPE_ROLL == "ABS_RZ"

EVENT_TYPE_ORIENT_STATUS == "ABS_RUDDER"

EVENT_TYPE_MAGV_X == "ABS_HAT0X"

EVENT_TYPE_MAGV_Y == "ABS_HAT0Y"

EVENT_TYPE_MAGV_Z == "ABS_BRAKE"

EVENT_TYPE_TEMPERATURE == "ABS_THROTTLE"

EVENT_TYPE_PROXIMITY == "ABS_DISTANCE"

EVENT_TYPE_LIGHT == "LED_MISC"

\* GRAVITY_EARTH is 9.80665f
GRAVITY_EARTH == <<980665, 100000>>

LSG == 1000

CONVERT_A == Rat(GRAVITY_EARTH[1], GRAVITY_EARTH[2] * LSG)

CONVERT_A_X == CONVERT_A

CONVERT_A_Y == CONVERT_A

CONVERT_A_Z == CONVERT_A

CONVERT_M == <<1, 16>>

CONVERT_M_X == CONVERT_M

CONVERT_M_Y == Neg(CONVERT_M)

CONVERT_M_Z == Neg(CONVERT_M)

CONVERT_O == <<1, 64>>

CONVERT_O_Y == CONVERT_O

CONVERT_O_P == CONVERT_O

CONVERT_O_R == Neg(CONVERT_O)

\* 1.0f/5.0f in binary32 is 13421773 * 2^-26
CONVERT_P == <<13421773, 67108864>>

PROXIMITY_THRESHOLD_CM == <<6, 1>>

SENSOR_STATE_MASK == 32767

SENSOR_STATUS_ACCURACY_HIGH == 3

SentinelStatus == 2147483647

\* (int8_t)(uint8_t)v
AsInt8(v) == LET b == v % 256 IN IF b >= 128 THEN b - 256 ELSE b

(***************************************************************************)
(* Bounds of the data path                                                 *)
(***************************************************************************)
\* raw events read by data__poll in one behaviour
MaxEvents == 3

\* raw values carried by field events
RawValues == {-64, 31}

\* <<tv_sec, tv_usec>> of the synchronization events
SynTimes == {<<1, 2>>, <<2, 1>>}

KnownAbsCodes ==
    {EVENT_TYPE_ACCEL_X, EVENT_TYPE_ACCEL_Y, EVENT_TYPE_ACCEL_Z,
     EVENT_TYPE_MAGV_X, EVENT_TYPE_MAGV_Y, EVENT_TYPE_MAGV_Z,
     EVENT_TYPE_YAW, EVENT_TYPE_PITCH, EVENT_TYPE_ROLL,
     EVENT_TYPE_TEMPERATURE, EVENT_TYPE_PROXIMITY, EVENT_TYPE_ORIENT_STATUS}

Event(type, code, value, t) ==
    [type |-> type, code |-> code, value |-> value, sec |-> t[1], usec |-> t[2]]

NoEvent == Event("none", "none", 0, <<0, 0>>)

\* raw events read by data__poll in one behaviour of the proximity input
MaxProx == 4

\* raw values of the proximity events, on both sides of 30
ProxValues == {-159, -1, 0, 1, 6, 29, 30, 31, 32, 159}

\* the input_event records of the proximity sensor
ProxEvents ==
    {Event("EV_ABS", EVENT_TYPE_PROXIMITY, v, <<0, 0>>) : v \in ProxValues}
    \cup {Event("EV_SYN", "SYN_REPORT", 0, t) : t \in {<<1, 2>>}}

\* the input_event records the raw source can deliver
InputEvents ==
    {Event("EV_ABS", c, v, <<0, 0>>) : c \in KnownAbsCodes, v \in RawValues}
    \cup {Event("EV_ABS", c, 1, <<0, 0>>) : c \in {EVENT_TYPE_ACCEL_STATUS, "ABS_MISC"}}
    \cup {Event("EV_LED", EVENT_TYPE_LIGHT, v, <<0, 0>>) : v \in RawValues}
    \cup {Event("EV_LED", "LED_MAIL", 1, <<0, 0>>), Event("EV_KEY", "KEY_A", 1, <<0, 0>>)}
    \cup {Event("EV_SYN", "SYN_REPORT", 0, t) : t \in SynTimes}
    \cup {Event("EV_SYN", "SYN_CONFIG", 0, <<0, 0>>)}

\* the codes whose events write a field of a stored sample
FieldCodes == KnownAbsCodes \cup {EVENT_TYPE_LIGHT}

(***************************************************************************)
(* The stored samples                                                      *)
(* sensors_data_t: sensor, the union (a vector v with its status; the      *)
(* scalars temperature, distance and light share v[1]), time.              *)
(***************************************************************************)
ZeroSample == [sensor |-> {}, v |-> <<Zero, Zero, Zero>>, status |-> 0, time |-> 0]

DataFd == 7

(***************************************************************************)
(* data__data_open / data__data_close                                      *)
(***************************************************************************)
data__data_open ==
    /\ sensors' = [i \in 0 .. (MAX_NUM_SENSORS - 1) |->
                      [ZeroSample EXCEPT !.status = SENSOR_STATUS_ACCURACY_HIGH]]
    /\ pendingSensors' = {}
    /\ events_fd' = DataFd

data__data_close ==
    /\ events_fd' = IF events_fd >= 0 THEN -1 ELSE events_fd
    /\ UNCHANGED <<sensors, pendingSensors>>

\* The observation variables describe the last data__poll only while no
\* other operation has followed it.
Forget ==
    /\ values' = <<>>
    /\ poll_ret' = <<>>
    /\ prev_ret' = <<>>
    /\ call_pending' = {}
    /\ pick_pending' = {}
    /\ last_ev' = NoEvent

DataOpen ==
    /\ pc = "idle"
    /\ data__data_open
    /\ data_op' = "data_open"
    /\ Forget
    /\ last_raw' = [c \in FieldCodes |-> 0]
    /\ last_sync' = NoEvent
    /\ owed' = {}
    /\ UNCHANGED <<pc, new_sensors, nread>>
    /\ UNCHANGED <<ctl_vars, conc_vars, cap_vars>>

DataClose ==
    /\ pc = "idle"
    /\ data__data_close
    /\ data_op' = "data_close"
    /\ Forget
    /\ UNCHANGED <<pc, new_sensors, last_raw, last_sync, nread, owed>>
    /\ UNCHANGED <<ctl_vars, conc_vars, cap_vars>>

(***************************************************************************)
(* pick_sensor                                                             *)
(***************************************************************************)
LowestBit(mask) == CHOOSE i \in mask : \A j \in mask : i <= j

\* 31 - __builtin_clz(mask)
HighestBit(mask) == CHOOSE i \in mask : \A j \in mask : j <= i

PickIndex_Untested(pending) == {HighestBit(SUPPORTED_SENSORS)}

\* the first i, going down from the highest supported bit, with
\* pendingSensors & (1<<i); the empty set when the loop runs out
PickIndex(pending) ==
    IF (SUPPORTED_SENSORS \cap pending) = {}
    THEN {}
    ELSE {HighestBit(SUPPORTED_SENSORS \cap pending)}

\* pick_sensor on store st = [sensors, pending]: the new store, the value
\* returned and the sample copied to *values (none when it returns -1)
pick_sensor(st) ==
    LET p == PickIndex(st.pending) IN
    IF p = {}
    THEN [sensors |-> st.sensors, pending |-> st.pending, ret |-> -1, out |-> <<>>]
    ELSE LET i == CHOOSE x \in p : TRUE IN
         [sensors |-> st.sensors,
          pending |-> st.pending \ {i},
          ret     |-> i,
          out     |-> <<[st.sensors[i] EXCEPT !.sensor = {i}]>>]

(***************************************************************************)
(* data__poll                                                              *)
(***************************************************************************)
SetField_FirstAxis(st, id, k, val) ==
    [st EXCEPT !.new_sensors = @ \cup {id}, !.sensors[id].v[1] = val]

\* new_sensors |= <sensor bit>;  dev->sensors[id].<field k> = val;
SetField(st, id, k, val) ==
    [st EXCEPT !.new_sensors = @ \cup {id}, !.sensors[id].v[k] = val]

\* switch (event.code) of an EV_ABS event
AbsEvent(st, ev) ==
    CASE ev.code = EVENT_TYPE_ACCEL_X ->
            SetField(st, ID_A, 1, Scale(ev.value, CONVERT_A_X))
      [] ev.code = EVENT_TYPE_ACCEL_Y ->
            SetField(st, ID_A, 2, Scale(ev.value, CONVERT_A_Y))
      [] ev.code = EVENT_TYPE_ACCEL_Z ->
            SetField(st, ID_A, 3, Scale(ev.value, CONVERT_A_Z))
      [] ev.code = EVENT_TYPE_MAGV_X ->
            SetField(st, ID_M, 1, Scale(ev.value, CONVERT_M_X))
      [] ev.code = EVENT_TYPE_MAGV_Y ->
            SetField(st, ID_M, 2, Scale(ev.value, CONVERT_M_Y))
      [] ev.code = EVENT_TYPE_MAGV_Z ->
            SetField(st, ID_M, 3, Scale(ev.value, CONVERT_M_Z))
      [] ev.code = EVENT_TYPE_YAW ->
            SetField(st, ID_O, 1, Scale(ev.value, CONVERT_O_Y))
      [] ev.code = EVENT_TYPE_PITCH ->
            SetField(st, ID_O, 2, Scale(ev.value, CONVERT_O_P))
      [] ev.code = EVENT_TYPE_ROLL ->
            SetField(st, ID_O, 3, Scale(ev.value, CONVERT_O_R))
      [] ev.code = EVENT_TYPE_TEMPERATURE ->
            SetField(st, ID_T, 1, Rat(ev.value, 1))
      [] ev.code = EVENT_TYPE_ACCEL_STATUS -> st
      [] ev.code = EVENT_TYPE_ORIENT_STATUS ->
            [st EXCEPT !.sensors[ID_O].status =
                           AsInt8(ev.value % (SENSOR_STATE_MASK + 1))]
      [] ev.code = EVENT_TYPE_PROXIMITY ->
            IF Leq(ScaleF32(ev.value, CONVERT_P), PROXIMITY_THRESHOLD_CM)
            THEN SetField(st, ID_P, 1, Zero)
            ELSE SetField(st, ID_P, 1, PROXIMITY_THRESHOLD_CM)
      [] OTHER -> st

LedEvent(st, ev) ==
    IF ev.code = EVENT_TYPE_LIGHT
    THEN SetField(st, ID_L, 1, Rat(ev.value, 1))
    ELSE st

\* event.time.tv_sec*1000000000LL + event.time.tv_usec*1000
EventTimeNs(ev) == ev.sec * 1000000000 + ev.usec * 1000

PendingAtBoundary_All(touched) == SUPPORTED_SENSORS

\* dev->pendingSensors = new_sensors
PendingAtBoundary(touched) == touched

HasPending_Never(pending) == FALSE

\* if (dev->pendingSensors)
HasPending(pending) == pending /= {}

\* the samples after  while (new_sensors) { ... dev->sensors[i].time = t; }
Stamp(samples, touched, t) ==
    [i \in DOMAIN samples |->
        IF i \in touched THEN [samples[i] EXCEPT !.time = t] ELSE samples[i]]

Deliver(r) ==
    /\ sensors' = r.sensors
    /\ pendingSensors' = r.pending
    /\ values' = r.out
    /\ poll_ret' = <<r.ret>>
    /\ pc' = "idle"

InvalidFd_Never(fd) == FALSE

\* if (fd < 0)
InvalidFd(fd) == fd < 0

IsSynConfig_Never(ev) == FALSE

\* event.type == EV_SYN  and  event.code == SYN_CONFIG
IsSynConfig(ev) == ev.type = "EV_SYN" /\ ev.code = "SYN_CONFIG"

\* data__poll from its entry to its first read()
PollCall ==
    /\ pc = "idle"
    /\ data_op' = "poll"
    /\ prev_ret' = poll_ret
    /\ call_pending' = pendingSensors
    /\ new_sensors' = {}
    /\ IF InvalidFd(events_fd)
       THEN /\ poll_ret' = <<-1>>
            /\ values' = <<>>
            /\ UNCHANGED <<sensors, pendingSensors, pc, pick_pending>>
       ELSE IF HasPending(pendingSensors)
       THEN /\ pick_pending' = pendingSensors
            /\ Deliver(pick_sensor([sensors |-> sensors, pending |-> pendingSensors]))
       ELSE /\ pc' = "read"
            /\ poll_ret' = <<>>
            /\ values' = <<>>
            /\ UNCHANGED <<sensors, pendingSensors, pick_pending>>
    /\ UNCHANGED <<events_fd, last_ev, last_raw, last_sync, nread, owed>>
    /\ UNCHANGED <<ctl_vars, conc_vars, cap_vars>>

\* the sensor bits the record ev adds to new_sensors
Touched(ev) ==
    LET none == [sensors |-> sensors, new_sensors |-> {}]
    IN  IF ev.type = "EV_ABS" THEN AbsEvent(none, ev).new_sensors
        ELSE IF ev.type = "EV_LED" THEN LedEvent(none, ev).new_sensors
        ELSE {}

\* one turn of the while (1) loop: read() delivers the full record ev
ReadEvent(ev) ==
        /\ nread' = nread + 1
        /\ last_ev' = ev
        /\ owed' = IF ev.type = "EV_ABS" \/ ev.type = "EV_LED"
                   THEN owed \cup Touched(ev)
                   ELSE IF ev.type = "EV_SYN" /\ ev.code /= "SYN_CONFIG"
                   THEN {}
                   ELSE owed
        /\ last_raw' = IF ev.code \in FieldCodes
                       THEN [last_raw EXCEPT ![ev.code] = ev.value]
                       ELSE last_raw
        /\ data_op' = "poll"
        /\ IF ev.type = "EV_ABS" \/ ev.type = "EV_LED"
           THEN LET st0 == [sensors |-> sensors, new_sensors |-> new_sensors]
                    st  == IF ev.type = "EV_ABS" THEN AbsEvent(st0, ev)
                                                 ELSE LedEvent(st0, ev)
                IN  /\ sensors' = st.sensors
                    /\ new_sensors' = st.new_sensors
                    /\ UNCHANGED <<pendingSensors, values, poll_ret, pc,
                                   pick_pending, last_sync>>
           ELSE IF IsSynConfig(ev)
           THEN /\ poll_ret' = <<SentinelStatus>>
                /\ pc' = "idle"
                /\ UNCHANGED <<sensors, new_sensors, pendingSensors, values,
                               pick_pending, last_sync>>
           ELSE IF ev.type = "EV_SYN" /\ new_sensors /= {}
           THEN LET pend == PendingAtBoundary(new_sensors)
                    t    == EventTimeNs(ev)
                    st   == [sensors |-> Stamp(sensors, new_sensors, t),
                             pending |-> pend]
                IN  /\ pick_pending' = pend
                    /\ last_sync' = ev
                    /\ new_sensors' = {}
                    /\ Deliver(pick_sensor(st))
           ELSE UNCHANGED <<sensors, new_sensors, pendingSensors, values,
                            poll_ret, pc, pick_pending, last_sync>>
        /\ UNCHANGED <<events_fd, prev_ret, call_pending>>

\* data__poll reads the next record of the raw source
PollRead ==
    /\ pc = "read"
    /\ nread < MaxEvents
    /\ \E ev \in InputEvents : ReadEvent(ev)
    /\ UNCHANGED <<ctl_vars, conc_vars, cap_vars>>

\* data__poll reads the next record of the proximity input
ProxRead ==
    /\ pc = "read"
    /\ nread < MaxProx
    /\ \E ev \in ProxEvents : ReadEvent(ev)
    /\ UNCHANGED <<ctl_vars, conc_vars, cap_vars>>

\* read() returns something else than one full record
PollReadFail ==
    /\ pc = "read"
    /\ poll_ret' = <<-1>>
    /\ pc' = "idle"
    /\ data_op' = "poll"
    /\ UNCHANGED <<events_fd, sensors, pendingSensors, new_sensors, values,
                   prev_ret, call_pending, pick_pending, last_ev, last_raw,
                   last_sync, nread, owed>>
    /\ UNCHANGED <<ctl_vars, conc_vars, cap_vars>>

(***************************************************************************)
(* control__open_data_source and poll_thread                               *)
(* The thread reads one record from a ready driver input device and        *)
(* handles it; a record written by send_event carries a zero time.  The    *)
(* fields of filter_sensors are floats that hold the integer event.value   *)
(* and are converted back by send_event: exact below 2^24.                 *)
(***************************************************************************)
\* driver events poll_thread reads in one behaviour
MaxCap == 3

\* driver events poll_thread reads in one behaviour next to a data__poll
MaxWakeCap == 2

\* raw values carried by the driver events
CapValues == {7}

\* the codes of the driver events read next to a data__poll
WakeCodes == {EVENT_TYPE_ACCEL_X, EVENT_TYPE_TEMPERATURE, "SYN_REPORT"}

\* driver events poll_thread reads in one behaviour of the accelerometer
\* pipeline
MaxPipe == 4

\* the accelerometer counts of that pipeline: 1000 counts are 1 G
PipeValues == {0, 1000}

\* the codes of the accelerometer input device
PipeCodes ==
    {EVENT_TYPE_ACCEL_X, EVENT_TYPE_ACCEL_Y, EVENT_TYPE_ACCEL_Z, "SYN_REPORT"}

\* records read by poll_thread, and by data__poll, in one behaviour with
\* stray records
MaxStray == 3

\* the handles offered to set_active while poll_thread runs
CapHandles == {ID_A, ID_O}

UinputFd == 9

\* the codes of the events each driver input device delivers: those of the
\* sensors of its dDriverList mask; the proximity events come with the
\* third device
DriverCodes(d) ==
    CASE d = ID_LIS -> {EVENT_TYPE_ACCEL_X, EVENT_TYPE_ACCEL_Y, EVENT_TYPE_ACCEL_Z}
      [] d = ID_AKM -> {EVENT_TYPE_MAGV_X, EVENT_TYPE_MAGV_Y, EVENT_TYPE_MAGV_Z,
                        EVENT_TYPE_YAW, EVENT_TYPE_PITCH, EVENT_TYPE_ROLL,
                        EVENT_TYPE_TEMPERATURE}
      [] OTHER      -> {EVENT_TYPE_PROXIMITY}

DriverEvents(d, vals) ==
    {Event("EV_ABS", c, v, <<0, 0>>) : c \in DriverCodes(d), v \in vals}
    \cup (IF d = ID_SFH
          THEN {Event("EV_LED", EVENT_TYPE_LIGHT, v, <<0, 0>>) : v \in vals}
          ELSE {})
    \cup {Event("EV_SYN", "SYN_REPORT", 0, <<0, 0>>)}

\* control__open_data_source: ufd is what uinput_create returns when it is
\* called; the thread is created once
OpenDataSource ==
    /\ \E ufd \in {-1, UinputFd} :
          IF uinput < 0 /\ ufd < 0
          THEN UNCHANGED <<uinput, cap_pc>>
          ELSE /\ uinput' = IF uinput < 0 THEN ufd ELSE uinput
               /\ cap_pc' = IF cap_pc = "none" THEN "start" ELSE cap_pc
    /\ UNCHANGED <<cap_i, filter_sensors, cap_new, raw_q, sink, ncap, cap_ev,
                   unsynced, nwake>>
    /\ UNCHANGED <<ctl_vars, data_vars, conc_vars>>

\* what one turn of the start-up loop can come to
StartOutcomes(i) ==
    IF i \in DOMAIN dDriverList THEN {"found", "exited"}
    ELSE {"found", "exited", "crashed"}

\* one turn of poll_thread's start-up loop, for (i = 0; i < MAX_NUM_DRIVERS;
\* i++): open_input(dDriverList[i].name) finds the input device, or it does
\* not and the thread exits.  The turn with i = 3 reads past the three
\* entries of dDriverList: whatever lies there is taken for a name, and the
\* thread goes on, exits, or the process dies on the bad pointer.
CaptureStart ==
    /\ cap_pc = "start"
    /\ cap_i < MAX_NUM_DRIVERS
    /\ \E out \in StartOutcomes(cap_i) :
          /\ cap_pc' = IF out = "found"
                       THEN (IF cap_i + 1 < MAX_NUM_DRIVERS THEN "start" ELSE "run")
                       ELSE out
          /\ cap_i' = IF out = "found" THEN cap_i + 1 ELSE cap_i
    /\ UNCHANGED <<uinput, filter_sensors, cap_new, raw_q, sink, ncap, cap_ev,
                   unsynced, nwake>>
    /\ UNCHANGED <<ctl_vars, data_vars, conc_vars>>

\* new_sensors |= <sensor bit>;  dev->filter_sensors[id].<field k> = event.value;
CapField(st, id, k, val) ==
    [st EXCEPT !.new = @ \cup {id}, !.filter[id][k] = val]

\* switch (event.code) of an EV_ABS event
CapAbsEvent(st, ev) ==
    CASE ev.code = EVENT_TYPE_ACCEL_X -> CapField(st, ID_A, 1, ev.value)
      [] ev.code = EVENT_TYPE_ACCEL_Y -> CapField(st, ID_A, 2, ev.value)
      [] ev.code = EVENT_TYPE_ACCEL_Z -> CapField(st, ID_A, 3, ev.value)
      [] ev.code = EVENT_TYPE_MAGV_X -> CapField(st, ID_M, 1, ev.value)
      [] ev.code = EVENT_TYPE_MAGV_Y -> CapField(st, ID_M, 2, ev.value)
      [] ev.code = EVENT_TYPE_MAGV_Z -> CapField(st, ID_M, 3, ev.value)
      [] ev.code = EVENT_TYPE_YAW -> CapField(st, ID_O, 1, ev.value)
      [] ev.code = EVENT_TYPE_PITCH -> CapField(st, ID_O, 2, ev.value)
      [] ev.code = EVENT_TYPE_ROLL -> CapField(st, ID_O, 3, ev.value)
      [] ev.code = EVENT_TYPE_TEMPERATURE -> CapField(st, ID_T, 1, ev.value)
      [] ev.code = EVENT_TYPE_PROXIMITY -> CapField(st, ID_P, 1, ev.value)
      [] OTHER -> st

CapLedEvent_AnyCode(st, ev) == CapField(st, ID_L, 1, ev.value)

CapLedEvent(st, ev) ==
    IF ev.code = EVENT_TYPE_LIGHT THEN CapField(st, ID_L, 1, ev.value) ELSE st

\* send_event(dev->uinput, type, code, value)
Sent(type, code, value) == Event(type, code, value, <<0, 0>>)

SynMark == Sent("EV_SYN", "SYN_REPORT", 0)

AccelGate_Open(active) == TRUE

\* if(active_sensors & SENSORS_ACCELERATION)
AccelGate(active) == (active \cap SENSORS_ACCELERATION) /= {}

OrientationGroup(f) ==
    <<Sent("EV_ABS", EVENT_TYPE_YAW, f[ID_O][1]),
      Sent("EV_ABS", EVENT_TYPE_PITCH, f[ID_O][2]),
      Sent("EV_ABS", EVENT_TYPE_ROLL, f[ID_O][3]), SynMark>>

\* switch (1<<i): what one turn of while(new_sensors) writes; the magnetic
\* case has no break and runs on into the orientation case
Group(f, i, active) ==
    CASE i = ID_A -> IF AccelGate(active)
                     THEN <<Sent("EV_ABS", EVENT_TYPE_ACCEL_X, f[ID_A][1]),
                            Sent("EV_ABS", EVENT_TYPE_ACCEL_Y, f[ID_A][2]),
                            Sent("EV_ABS", EVENT_TYPE_ACCEL_Z, f[ID_A][3]), SynMark>>
                     ELSE <<>>
      [] i = ID_M -> <<Sent("EV_ABS", EVENT_TYPE_MAGV_X, f[ID_M][1]),
                       Sent("EV_ABS", EVENT_TYPE_MAGV_Y, f[ID_M][2]),
                       Sent("EV_ABS", EVENT_TYPE_MAGV_Z, f[ID_M][3]), SynMark>>
                     \o OrientationGroup(f)
      [] i = ID_O -> OrientationGroup(f)
      [] i = ID_T -> <<Sent("EV_ABS", EVENT_TYPE_TEMPERATURE, f[ID_T][1]), SynMark>>
      [] i = ID_P -> <<Sent("EV_ABS", EVENT_TYPE_PROXIMITY, f[ID_P][1]), SynMark>>
      [] i = ID_L -> <<Sent("EV_LED", EVENT_TYPE_LIGHT, f[ID_L][1]), SynMark>>
      [] OTHER -> <<>>

\* while(new_sensors) { i = 31 - __builtin_clz(new_sensors); ... }
RECURSIVE Flush(_, _, _)
Flush(f, touched, active) ==
    IF touched = {} THEN <<>>
    ELSE LET i == HighestBit(touched)
         IN  Group(f, i, active) \o Flush(f, touched \ {i}, active)

Echo_Never(ev) == <<>>

\* if (event.code == SYN_CONFIG) if (event.value == 0) write(dev->uinput, &event, ...)
Echo(ev) ==
    IF ev.code = "SYN_CONFIG" /\ ev.value = 0 THEN <<ev>> ELSE <<>>

\* the sensors an EV_SYN read from device d flushes: every touched one
FlushSet(touched, d) == touched

\* poll_thread handles the record ev it read from device d
CaptureEvent(d, ev) ==
    /\ cap_pc = "run"
    /\ cap_ev' = [dev |-> d, ev |-> ev]
    /\ LET active_sensors_read == active_sensors
           st0 == [new |-> cap_new, filter |-> filter_sensors]
           none == [new |-> {}, filter |-> filter_sensors]
           hit == IF ev.type = "EV_ABS" THEN CapAbsEvent(none, ev).new
                  ELSE IF ev.type = "EV_LED" THEN CapLedEvent(none, ev).new
                  ELSE {}
       IN  IF uinput < 0
           THEN UNCHANGED <<filter_sensors, cap_new, sink, unsynced>>
           ELSE IF ev.type = "EV_ABS" \/ ev.type = "EV_LED"
           THEN LET st == IF ev.type = "EV_ABS" THEN CapAbsEvent(st0, ev)
                                                ELSE CapLedEvent(st0, ev)
                IN  /\ filter_sensors' = st.filter
                    /\ cap_new' = st.new
                    /\ unsynced' = [unsynced EXCEPT ![d] = @ \cup hit]
                    /\ UNCHANGED sink
           ELSE IF ev.type = "EV_SYN"
           THEN LET flushed == FlushSet(cap_new, d)
                IN  /\ sink' = sink \o Echo(ev)
                                    \o Flush(filter_sensors, flushed, active_sensors_read)
                    /\ cap_new' = cap_new \ flushed
                    /\ unsynced' = [unsynced EXCEPT ![d] = {}]
                    /\ UNCHANGED filter_sensors
           ELSE UNCHANGED <<filter_sensors, cap_new, sink, unsynced>>
    /\ UNCHANGED <<uinput, nwake>>

\* a driver input device of devs delivers its next record, one with a code
\* of codes and a value of vals, while fewer than bound have been read
CaptureReadOf(bound, devs, codes, vals) ==
    /\ ncap < bound
    /\ \E d \in devs :
          \E ev \in {e \in DriverEvents(d, vals) : e.code \in codes} :
              CaptureEvent(d, ev)
    /\ ncap' = ncap + 1
    /\ UNCHANGED <<cap_pc, cap_i, raw_q>>
    /\ UNCHANGED <<ctl_vars, data_vars, conc_vars>>

CaptureRead ==
    CaptureReadOf(MaxCap, DOMAIN dDriverList, FieldCodes \cup {"SYN_REPORT"}, CapValues)

\* the accelerometer input device delivers a record written by control__wake
CaptureWake ==
    /\ raw_q /= <<>>
    /\ CaptureEvent(ID_LIS, Head(raw_q))
    /\ raw_q' = Tail(raw_q)
    /\ UNCHANGED <<cap_pc, cap_i, ncap>>
    /\ UNCHANGED <<ctl_vars, data_vars, conc_vars>>

\* one control__activate call at any moment of the capture
CapSetActive ==
    /\ ctl_call.op = "none"
    /\ SetActiveOf(CapHandles)

\* control__activate on the accelerometer, once
PipeSetActive ==
    /\ ctl_call.op = "none"
    /\ SetActiveOf({ID_A})

\* the accelerometer input device delivers its next record
PipeRead == CaptureReadOf(MaxPipe, {ID_LIS}, PipeCodes, PipeValues)

\* records no case of either switch names: an EV_ABS code outside the
\* sensors' codes, the accelerometer's status code, an EV_LED code other
\* than LED_MISC, a record of another type
StrayEvents ==
    {Event("EV_ABS", "ABS_MISC", 1, <<0, 0>>),
     Event("EV_ABS", EVENT_TYPE_ACCEL_STATUS, 1, <<0, 0>>),
     Event("EV_LED", "LED_MAIL", 1, <<0, 0>>),
     Event("EV_KEY", "KEY_A", 1, <<0, 0>>)}

\* the records read in the behaviours that carry stray records: those, a
\* field of the accelerometer and a boundary
MixedEvents ==
    StrayEvents
    \cup {Event("EV_ABS", EVENT_TYPE_ACCEL_X, v, <<0, 0>>) : v \in CapValues}
    \cup {Event("EV_SYN", "SYN_REPORT", 0, <<0, 0>>)}

\* a driver input device delivers a record of MixedEvents to poll_thread
CaptureReadMixed ==
    /\ ncap < MaxStray
    /\ \E d \in {ID_LIS, ID_AKM} : \E ev \in MixedEvents : CaptureEvent(d, ev)
    /\ ncap' = ncap + 1
    /\ UNCHANGED <<cap_pc, cap_i, raw_q>>
    /\ UNCHANGED <<ctl_vars, data_vars, conc_vars>>

\* data__poll reads a record of MixedEvents from its raw source
PollReadMixed ==
    /\ pc = "read"
    /\ nread < MaxStray
    /\ \E ev \in MixedEvents : ReadEvent(ev)
    /\ UNCHANGED <<ctl_vars, conc_vars, cap_vars>>

\* data__data_open on the handle control__open_data_source returned
SinkOpen ==
    /\ uinput >= 0
    /\ data_op = "none"
    /\ DataOpen

\* data__poll reads the next record of the uinput device
PollReadSink ==
    /\ pc = "read"
    /\ sink /= <<>>
    /\ ReadEvent(Head(sink))
    /\ sink' = Tail(sink)
    /\ UNCHANGED <<uinput, cap_pc, cap_i, filter_sensors, cap_new, raw_q, ncap,
                   cap_ev, unsynced, nwake>>
    /\ UNCHANGED <<ctl_vars, conc_vars>>

(***************************************************************************)
(* Both contexts after open_sensors(): SENSORS_HARDWARE_CONTROL and        *)
(* SENSORS_HARDWARE_DATA                                                   *)
(***************************************************************************)
Init ==
    /\ active_sensors = {}
    /\ active_drivers = {}
    /\ dev_fd = [d \in 0 .. (MAX_NUM_DRIVERS - 1) |-> -1]
    /\ kxtf9_enabled = FALSE
    /\ ctl_call = NoCall
    /\ ctl_ret = 0
    /\ ctl_ops = <<>>
    /\ ctl_prev = NoPrev
    /\ events_fd = -1
    /\ sensors = [i \in 0 .. (MAX_NUM_SENSORS - 1) |-> ZeroSample]
    /\ pendingSensors = {}
    /\ pc = "idle"
    /\ new_sensors = {}
    /\ values = <<>>
    /\ poll_ret = <<>>
    /\ prev_ret = <<>>
    /\ data_op = "none"
    /\ call_pending = {}
    /\ pick_pending = {}
    /\ last_ev = NoEvent
    /\ last_raw = [c \in FieldCodes |-> 0]
    /\ last_sync = NoEvent
    /\ nread = 0
    /\ owed = {}
    /\ thr = [t \in Threads |-> IdleThread]
    /\ base_active = {}
    /\ uinput = -1
    /\ cap_pc = "none"
    /\ cap_i = 0
    /\ filter_sensors = [i \in 0 .. (MAX_NUM_SENSORS - 1) |-> <<0, 0, 0>>]
    /\ cap_new = {}
    /\ raw_q = <<>>
    /\ sink = <<>>
    /\ ncap = 0
    /\ cap_ev = [dev |-> -1, ev |-> NoEvent]
    /\ unsynced = [d \in DOMAIN dDriverList |-> {}]
    /\ nwake = 0

\* the activation state machine
Next == SetActive

Spec == Init /\ [][Next]_vars

\* the delivery queue
NextData ==
    \/ DataOpen
    \/ DataClose
    \/ PollCall
    \/ PollRead
    \/ PollReadFail

SpecData == Init /\ [][NextData]_vars

\* the control context with one caller
NextCtl ==
    \/ SetActiveOf(CtlHandles)
    \/ SetDelay
    \/ Wake

SpecCtl == Init /\ [][NextCtl]_vars

\* poll_thread next to the control caller
NextCapture ==
    \/ OpenDataSource
    \/ CaptureStart
    \/ CapSetActive
    \/ CaptureRead

SpecCapture == Init /\ [][NextCapture]_vars

\* control__wake, poll_thread and a data__poll on the uinput device, whose
\* reads succeed.  The thread handles a record that waits in a driver
\* device, and the reader returns from read() when a record waits in the
\* uinput device.
NextWake ==
    \/ OpenDataSource
    \/ CaptureStart
    \/ SinkOpen
    \/ Wake
    \/ CaptureReadOf(MaxWakeCap, DOMAIN dDriverList, WakeCodes, CapValues)
    \/ CaptureWake
    \/ PollCall
    \/ PollReadSink

SpecWake ==
    /\ Init
    /\ [][NextWake]_vars
    /\ WF_vars(CaptureWake)
    /\ WF_vars(PollReadSink)

\* two callers of control__activate
\* set_active, the accelerometer driver, poll_thread, the uinput device
\* and data__poll, end to end
NextPipe ==
    \/ OpenDataSource
    \/ CaptureStart
    \/ PipeSetActive
    \/ SinkOpen
    \/ PipeRead
    \/ PollCall
    \/ PollReadSink

SpecPipe == Init /\ [][NextPipe]_vars

\* data__poll on the records of the proximity sensor
NextProx ==
    \/ DataOpen
    \/ PollCall
    \/ ProxRead

SpecProx == Init /\ [][NextProx]_vars

\* poll_thread and data__poll, each on a source that also delivers
\* records they have no case for
NextStray ==
    \/ OpenDataSource
    \/ CaptureStart
    \/ CaptureReadMixed
    \/ DataOpen
    \/ PollCall
    \/ PollReadMixed

SpecStray == Init /\ [][NextStray]_vars

NextConc ==
    \/ FirstCall
    \/ \E t \in Threads : ThreadLoad(t)
    \/ \E t \in Threads : ThreadRun(t)

SpecConc == Init /\ [][NextConc]_vars

(***************************************************************************)
(* Properties of the activation state machine (checked under Spec)         *)
(***************************************************************************)
LastIsActivate == ctl_call.op = "activate"

FailedOps == {i \in 1 .. Len(ctl_ops) : ctl_ops[i].res < 0}

\* C1: after any sequence of set_active calls, successful or failed,
\* DriverMask is ActivationMask plus the Acceleration bit when Orientation
\* is in ActivationMask.
C1_DriverMaskIsClosure ==
    active_drivers =
        active_sensors \cup (IF ID_O \in active_sensors THEN {ID_A} ELSE {})

\* Orientation is active without Acceleration, and the last call failed.
C1_Witness ==
    /\ ID_O \in active_sensors
    /\ ID_A \notin active_sensors
    /\ ID_A \in active_drivers
    /\ LastIsActivate /\ ctl_ret < 0 /\ FailedOps /= {}

\* C2 as stated: every set_active(Orientation, true) leaves Orientation and
\* Acceleration in DriverMask, and every set_active(Orientation, false)
\* leaves Acceleration in DriverMask exactly when it is in ActivationMask.
C2_Original ==
    (LastIsActivate /\ ctl_call.handle = ID_O) =>
        IF ctl_call.enabled
        THEN {ID_O, ID_A} \subseteq active_drivers
        ELSE /\ ID_O \notin active_drivers
             /\ (ID_A \in active_drivers <=> ID_A \in active_sensors)

\* C2 amended: the same, for the set_active(Orientation, _) calls that
\* return success.
C2_OrientationPullsAcceleration ==
    (LastIsActivate /\ ctl_call.handle = ID_O /\ ctl_ret = 0) =>
        IF ctl_call.enabled
        THEN {ID_O, ID_A} \subseteq active_drivers
        ELSE /\ ID_O \notin active_drivers
             /\ (ID_A \in active_drivers <=> ID_A \in active_sensors)

\* Orientation was on with Acceleration only as its dependency; disabling
\* Orientation succeeded and took Acceleration out of DriverMask.
C2_Witness ==
    /\ LastIsActivate /\ ctl_call.handle = ID_O /\ ~ ctl_call.enabled
    /\ ctl_ret = 0
    /\ ID_O \in ctl_call.old_active /\ ID_A \in ctl_call.old_drivers
    /\ ID_A \notin ctl_call.old_active
    /\ ID_A \notin active_drivers

\* C3: a set_active that returns an error leaves both masks as it found
\* them; one that returns success replaces both by the new values.
C3_AtomicCommit ==
    LastIsActivate =>
        LET h   == ctl_call.handle
            exp == IF ctl_call.enabled THEN ctl_call.old_active \cup {h}
                                       ELSE ctl_call.old_active \ {h}
        IN  /\ ctl_ret < 0 => /\ active_sensors = ctl_call.old_active
                              /\ active_drivers = ctl_call.old_drivers
            /\ ctl_ret = 0 => /\ active_sensors = exp
                              /\ active_drivers =
                                    exp \cup (IF ID_O \in exp THEN {ID_A} ELSE {})
            /\ ctl_ret <= 0

\* A call failed on a device after the masks had become non-empty.
C3_Witness ==
    /\ LastIsActivate /\ ctl_ret < 0 /\ FailedOps /= {}
    /\ active_sensors /= {}
    /\ ctl_call.handle \notin active_sensors /\ ctl_call.enabled

\* C4: set_active with a handle outside 0..5 returns an error, leaves both
\* masks and every device handle unchanged and performs no device operation.
C4_InvalidHandleRejected ==
    (LastIsActivate /\ (ctl_call.handle < 0 \/ ctl_call.handle >= 6)) =>
        /\ ctl_ret < 0
        /\ active_sensors = ctl_call.old_active
        /\ active_drivers = ctl_call.old_drivers
        /\ dev_fd = ctl_call.old_fd
        /\ ctl_ops = <<>>

\* Handle 6 was offered while sensors were active and a device was open.
C4_Witness ==
    /\ LastIsActivate /\ ctl_call.handle = 6 /\ ctl_call.enabled
    /\ active_sensors /= {}
    /\ \E d \in DOMAIN dev_fd : dev_fd[d] >= 0

SameEnableTwice ==
    /\ LastIsActivate /\ ctl_prev.op = "activate"
    /\ ctl_call.handle = ctl_prev.handle
    /\ ctl_call.enabled /\ ctl_prev.enabled

\* C5 as stated: two consecutive set_active(X, true) calls issue the device
\* command at most once between them.
C5_Original ==
    SameEnableTwice => ctl_prev.cmds + Cmds(ctl_ops) <= 1

\* C5 amended: when the first of two consecutive set_active(X, true) calls
\* returns success, the second issues no device command, and both together
\* issue at most one.
C5_NoCommandOnRepeat ==
    (SameEnableTwice /\ ctl_prev.ret = 0) =>
        /\ Cmds(ctl_ops) = 0
        /\ ctl_prev.cmds + Cmds(ctl_ops) <= 1

\* The first call powered the accelerometer on, the second repeated it.
C5_Witness ==
    /\ SameEnableTwice /\ ctl_prev.ret = 0 /\ ctl_prev.cmds = 1
    /\ ctl_ret = 0

(***************************************************************************)
(* Properties of the delivery queue (checked under SpecData)               *)
(***************************************************************************)
\* the last operation was a data__poll that returned a sensor index
IsSample(r) == r /= <<>> /\ r[1] >= 0 /\ r[1] < 6

IsBoundary(ev) == ev.type = "EV_SYN" /\ ev.code /= "SYN_CONFIG"

\* C6: each data__poll that returns a sample returns the highest-numbered
\* bit of PendingMask and clears only that bit, so successive calls served
\* from PendingMask return strictly descending identities.
C6_DescendingOrder ==
    IsSample(poll_ret) =>
        LET i == poll_ret[1] IN
        /\ i \in pick_pending
        /\ \A j \in pick_pending : j <= i
        /\ pendingSensors = pick_pending \ {i}
        /\ (IsSample(prev_ret) /\ call_pending /= {}) => i < prev_ret[1]

\* Proximity and Magnetic were pending together: Proximity came first,
\* Magnetic on the next call.
C6_Witness ==
    /\ prev_ret = <<ID_P>> /\ poll_ret = <<ID_M>>
    /\ call_pending = {ID_M}
    /\ pendingSensors = {}

\* C7 as stated: a returned sample's bit was in PendingMask when data__poll
\* was called, and is not in PendingMask after the return.
C7_Original ==
    IsSample(poll_ret) =>
        /\ poll_ret[1] \in call_pending
        /\ poll_ret[1] \notin pendingSensors

\* C7 amended: a returned sample's bit was in PendingMask when the sample
\* was picked (PendingMask as the call found it, or, when that was empty,
\* as the boundary read during the call set it), and is not in PendingMask
\* after the return.
C7_OnlyPendingReturned ==
    IsSample(poll_ret) =>
        /\ poll_ret[1] \in (IF call_pending /= {} THEN call_pending ELSE pick_pending)
        /\ call_pending /= {} => pick_pending = call_pending
        /\ poll_ret[1] \notin pendingSensors
        /\ Len(values) = 1 /\ values[1].sensor = {poll_ret[1]}

\* A call that found PendingMask empty read a boundary and returned the
\* higher of two touched sensors.
C7_Witness ==
    /\ IsSample(poll_ret) /\ call_pending = {}
    /\ poll_ret[1] = ID_L /\ pendingSensors = {ID_O}

DeliveredInStep(i) ==
    /\ poll_ret' = <<i>>
    /\ values' = <<[sensors'[i] EXCEPT !.sensor = {i}]>>
    /\ i \notin pendingSensors'

DrainsBeforeReading ==
    /\ nread' /= nread => (call_pending = {} /\ pendingSensors = {})
    /\ pc' = "read" => (call_pending' = {} /\ pendingSensors' = {})
    /\ (nread' /= nread /\ IsSample(poll_ret')) => DeliveredInStep(poll_ret'[1])

\* C8 as stated: a raw event is read only by a call that found PendingMask
\* empty, and every bit that leaves PendingMask leaves it in a data__poll
\* step that copies that sensor's sample out, one bit per call.
C8_Original ==
    [][/\ DrainsBeforeReading
       /\ \A i \in pendingSensors \ pendingSensors' :
            /\ DeliveredInStep(i)
            /\ pendingSensors' = pendingSensors \ {i}]_vars

\* C8 amended: a raw event is read only by a call that found PendingMask
\* empty, and every bit that leaves PendingMask leaves it either in a
\* data__poll step that copies that sensor's sample out, one bit per call,
\* or in data_open, which empties PendingMask and delivers nothing.
C8_DrainedByPollOrReset ==
    [][/\ DrainsBeforeReading
       /\ \A i \in pendingSensors \ pendingSensors' :
            \/ /\ DeliveredInStep(i)
               /\ pendingSensors' = pendingSensors \ {i}
            \/ /\ data_op' = "data_open"
               /\ pendingSensors' = {}
               /\ poll_ret' = <<>> /\ values' = <<>>]_vars

\* The lower of two pending sensors was delivered by a call that read
\* nothing.
C8_Witness ==
    /\ IsSample(poll_ret) /\ call_pending = {ID_A}
    /\ pendingSensors = {}
    /\ values = <<[sensors[ID_A] EXCEPT !.sensor = {ID_A}]>>
    /\ IsSample(prev_ret)

\* the field a claimant expects in sensors[i].v[k], from the last raw value
\* read for the code that feeds it
ExpectedField(i, k) ==
    LET raw(c) == last_raw[c] IN
    CASE i = ID_A /\ k = 1 -> Scale(raw("ABS_X"), CONVERT_A)
      [] i = ID_A /\ k = 2 -> Scale(raw("ABS_Y"), CONVERT_A)
      [] i = ID_A /\ k = 3 -> Scale(raw("ABS_Z"), CONVERT_A)
      [] i = ID_M /\ k = 1 -> Scale(raw("ABS_HAT0X"), <<1, 16>>)
      [] i = ID_M /\ k = 2 -> Scale(raw("ABS_HAT0Y"), <<-1, 16>>)
      [] i = ID_M /\ k = 3 -> Scale(raw("ABS_BRAKE"), <<-1, 16>>)
      [] i = ID_O /\ k = 1 -> Scale(raw("ABS_RX"), <<1, 64>>)
      [] i = ID_O /\ k = 2 -> Scale(raw("ABS_RY"), <<1, 64>>)
      [] i = ID_O /\ k = 3 -> Scale(raw("ABS_RZ"), <<-1, 64>>)
      [] i = ID_T /\ k = 1 -> <<raw("ABS_THROTTLE"), 1>>
      [] i = ID_P /\ k = 1 -> IF raw("ABS_DISTANCE") <= 30 THEN <<0, 1>> ELSE <<6, 1>>
      [] i = ID_L /\ k = 1 -> <<raw("LED_MISC"), 1>>
      [] OTHER -> <<0, 1>>

ExpectedTime == last_sync.sec * 1000000000 + last_sync.usec * 1000

\* C9: a delivered sample holds, in every field, the converted value of
\* the last raw update of that field, and the timestamp of the boundary
\* event; the samples the same boundary left pending carry the same
\* timestamp and their own last updates.
C9_LastWriteWins ==
    IsSample(poll_ret) =>
        /\ \A k \in 1 .. 3 : values[1].v[k] = ExpectedField(poll_ret[1], k)
        /\ values[1].time = ExpectedTime
        /\ IsBoundary(last_sync)
        /\ \A j \in pendingSensors :
              /\ sensors[j].time = ExpectedTime
              /\ \A k \in 1 .. 3 : sensors[j].v[k] = ExpectedField(j, k)

\* Magnetic Y = -64 and an acceleration axis were read before the boundary
\* stamped <<2 s, 1 us>>; the Magnetic sample went out with y = 4 uT.
C9_Witness ==
    /\ poll_ret = <<ID_M>> /\ nread = 3
    /\ values[1].v[2] = <<4, 1>>
    /\ values[1].time = 2000001000
    /\ pendingSensors = {ID_A}
    /\ sensors[ID_A].time = 2000001000

\* C10: a data__poll that returns a sensor index copies out exactly that
\* one sample; a bit enters PendingMask only in the step that reads a
\* synchronization boundary, and only for a sensor touched before it in the
\* same call; data__poll writes no stored sample whose bit is in
\* PendingMask, and a sample whose bit stays in PendingMask is not changed.
C10_NoPartialSample ==
    [][/\ \A i \in (pendingSensors' \ pendingSensors)
                    \cup (IF nread' /= nread /\ IsSample(poll_ret')
                          THEN {poll_ret'[1]} ELSE {}) :
            /\ nread' = nread + 1
            /\ IsBoundary(last_ev')
            /\ i \in new_sensors
       /\ \A i \in pendingSensors :
            (data_op' = "poll" \/ i \in pendingSensors') => sensors'[i] = sensors[i]
       /\ IsSample(poll_ret') =>
            /\ Len(values') = 1
            /\ values'[1].sensor = {poll_ret'[1]}
            /\ Cardinality(pick_pending' \ pendingSensors') = 1]_vars

\* A boundary completed two touched samples: one was returned, the other
\* waits in PendingMask.
C10_Witness ==
    /\ IsSample(poll_ret) /\ IsBoundary(last_ev) /\ nread = 3
    /\ call_pending = {}
    /\ Cardinality(pendingSensors) = 1

\* data__poll returned -1 in this step and did nothing else
ReturnsError ==
    /\ poll_ret' = <<-1>>
    /\ pc' = "idle"
    /\ values' = <<>>
    /\ pendingSensors' = pendingSensors
    /\ sensors' = sensors
    /\ events_fd' = events_fd

\* C11: the step of data__poll that reads a SYN_CONFIG event returns
\* 0x7FFFFFFF, copies no sample out and leaves PendingMask empty and the
\* stored samples as they were, whatever fields the call had updated (and
\* whichever sensors it had touched) before.
C11_SynConfigSentinel ==
    [][(nread' /= nread /\ last_ev'.type = "EV_SYN" /\ last_ev'.code = "SYN_CONFIG") =>
            /\ poll_ret' = <<2147483647>>
            /\ pc' = "idle"
            /\ values' = <<>>
            /\ pendingSensors' = {} /\ pendingSensors = {}
            /\ sensors' = sensors]_vars

\* The call updated fields of two sensors and then read SYN_CONFIG.
C11_Witness ==
    /\ poll_ret = <<2147483647>> /\ pc = "idle"
    /\ last_ev.code = "SYN_CONFIG" /\ nread = 3
    /\ Cardinality(new_sensors) = 2
    /\ pendingSensors = {}

\* C12: a data__poll call on a closed descriptor, and a data__poll call
\* whose read() does not return one full record, return -1, copy no sample
\* out and leave PendingMask unchanged.
C12_SourceError ==
    [][/\ (pc = "idle" /\ data_op' = "poll" /\ events_fd < 0) => ReturnsError
       /\ (pc = "read" /\ nread' = nread) => ReturnsError]_vars

\* The descriptor was closed while a sample was still pending, and the call
\* returned the error without delivering it.
C12_Witness ==
    /\ poll_ret = <<-1>> /\ data_op = "poll"
    /\ events_fd < 0
    /\ pendingSensors /= {}

(***************************************************************************)
(* Properties of concurrent control calls (checked under SpecConc)         *)
(***************************************************************************)
BothDone == \A t \in Threads : thr[t].pc = "done"

\* the sensors the calls that returned 0 switched on, and off
SwitchedOn == {thr[t].handle : t \in {u \in Threads : thr[u].ret = 0 /\ thr[u].enabled}}

SwitchedOff == {thr[t].handle : t \in {u \in Threads : thr[u].ret = 0 /\ ~ thr[u].enabled}}

\* C13 as stated: when two concurrent set_active calls on different sensors
\* have both returned, ActivationMask is what the calls leave when run one
\* after the other (in either order: each call that returned success has
\* set or cleared its own bit, each call that failed has changed nothing),
\* and DriverMask is that mask plus the Acceleration dependency.
C13_Original ==
    BothDone =>
        LET exp == (base_active \cup SwitchedOn) \ SwitchedOff IN
        /\ active_sensors = exp
        /\ active_drivers = exp \cup (IF ID_O \in exp THEN {ID_A} ELSE {})

(***************************************************************************)
(* Properties of control__wake and control__set_delay (checked under       *)
(* SpecCtl)                                                                *)
(***************************************************************************)
WakeLeavesControlState ==
    /\ active_sensors' = active_sensors
    /\ active_drivers' = active_drivers
    /\ dev_fd' = dev_fd
    /\ kxtf9_enabled' = kxtf9_enabled

\* C15 as stated: wake changes neither mask nor any device handle, and a
\* wake that follows a wake which wrote its event leaves the raw input
\* stream as that first wake left it.
C15_Original ==
    [][ctl_call'.op = "wake" =>
            /\ WakeLeavesControlState
            /\ (ctl_call.op = "wake" /\ ctl_ret > 0) => raw_q' = raw_q]_vars

\* C15 amended: wake changes neither mask nor any device handle; a wake
\* whose write succeeds adds exactly one SYN_CONFIG event (value 0) to the
\* accelerometer's raw stream, also when it follows another wake, and a
\* wake that finds no input device or whose write fails adds nothing.
C15_WakeAddsOneEvent ==
    [][ctl_call'.op = "wake" =>
            /\ WakeLeavesControlState
            /\ ctl_ret' > 0 =>
                    /\ Len(raw_q') = Len(raw_q) + 1
                    /\ SubSeq(raw_q', 1, Len(raw_q)) = raw_q
                    /\ raw_q'[Len(raw_q')].type = "EV_SYN"
                    /\ raw_q'[Len(raw_q')].code = "SYN_CONFIG"
                    /\ raw_q'[Len(raw_q')].value = 0
            /\ ctl_ret' <= 0 => raw_q' = raw_q]_vars

\* Two consecutive wakes, each of which wrote its event, with sensors
\* active and a device open: two events wait in the stream.
C15_Witness ==
    /\ ctl_call.op = "wake" /\ ctl_prev.op = "wake"
    /\ ctl_ret > 0 /\ ctl_prev.ret > 0
    /\ Len(raw_q) = 2
    /\ active_sensors /= {} /\ dev_fd[ID_AKM] >= 0

LastIsSetDelay == ctl_call.op = "set_delay"

RateCommands(d) == {i \in 1 .. Len(ctl_ops) : ctl_ops[i].dev = d}

SetDelayChangesNothing ==
    /\ \A i \in 1 .. Len(ctl_ops) : ctl_ops[i].op = "set_delay"
    /\ dev_fd = ctl_call.old_fd
    /\ active_sensors = ctl_call.old_active
    /\ active_drivers = ctl_call.old_drivers

FirstFailure ==
    LET failed == {i \in 1 .. Len(ctl_ops) : ctl_ops[i].res < 0} IN
    IF failed = {} THEN 0
    ELSE ctl_ops[CHOOSE i \in failed : \A j \in failed : i <= j].res

\* C16 as stated: set_delay sends one rate command to every device whose
\* handle was open when it was called and none to a device whose handle
\* was closed, returns the first failure, and opens or closes no handle
\* and changes no mask.
C16_Original ==
    LastIsSetDelay =>
        /\ \A d \in DOMAIN ctl_call.old_fd :
                IF ctl_call.old_fd[d] >= 0
                THEN Cardinality(RateCommands(d)) = 1
                ELSE RateCommands(d) = {}
        /\ ctl_ret = FirstFailure
        /\ SetDelayChangesNothing

\* C16 amended: set_delay sends one rate command to the accelerometer when
\* its handle was open at the call, and none to any other device (the
\* compass receives none even when its handle is open) nor to a closed
\* handle; it returns the failure of that command, or 0; it opens or closes
\* no handle and changes no mask.
C16_RateToAccelerometerOnly ==
    LastIsSetDelay =>
        /\ \A d \in DOMAIN ctl_call.old_fd :
                IF d = 0 /\ ctl_call.old_fd[d] >= 0
                THEN Cardinality(RateCommands(d)) = 1
                ELSE RateCommands(d) = {}
        /\ ctl_ret = FirstFailure
        /\ ctl_ret <= 0
        /\ SetDelayChangesNothing

\* Both the accelerometer and the compass were open; the accelerometer
\* refused the command.
C16_Witness ==
    /\ LastIsSetDelay
    /\ ctl_call.old_fd[ID_LIS] >= 0 /\ ctl_call.old_fd[ID_AKM] >= 0
    /\ ctl_ret < 0
    /\ Len(ctl_ops) = 1

(***************************************************************************)
(* Properties of the wake signal (checked under SpecWake)                  *)
(***************************************************************************)
\* a data__poll call sits in read() on the uinput device
Blocked == pc = "read"

\* a record written by control__wake waits for a running poll_thread
SignalWaits == raw_q /= <<>> /\ cap_pc = "run" /\ uinput >= 0

ConfigsIn(q) == {i \in 1 .. Len(q) : q[i].type = "EV_SYN" /\ q[i].code = "SYN_CONFIG"}

\* C14 as stated: once the wake signal waits for the capture loop, the
\* data__poll call blocked on the uinput device (the first call: none has
\* returned before it) eventually returns, and returns 0x7FFFFFFF.
C14_Original ==
    (Blocked /\ SignalWaits /\ prev_ret = <<>>) ~>
        (pc = "idle" /\ poll_ret = <<2147483647>> /\ prev_ret = <<>>)

\* C14 amended: the capture loop, when it reads the wake signal, writes
\* exactly one SYN_CONFIG event to the uinput device, ahead of the groups
\* it flushes; a data__poll blocked on the uinput device eventually
\* returns; and the call returns 0x7FFFFFFF when the SYN_CONFIG is the
\* event that ends it, and a sample instead when a group mirrored ahead of
\* the SYN_CONFIG completes one.
C14_WakeUnblocksPoll ==
    /\ (Blocked /\ SignalWaits) ~> (pc = "idle")
    /\ [][(raw_q /= <<>> /\ raw_q' = Tail(raw_q)) =>
            /\ Len(sink') > Len(sink)
            /\ SubSeq(sink', 1, Len(sink)) = sink
            /\ sink'[Len(sink) + 1] = Head(raw_q)
            /\ Cardinality(ConfigsIn(sink')) = Cardinality(ConfigsIn(sink)) + 1]_vars
    /\ [][(pc = "read" /\ pc' = "idle") =>
            \/ poll_ret' = <<2147483647>> /\ last_ev'.code = "SYN_CONFIG"
                                           /\ nread' = nread + 1
            \/ IsSample(poll_ret') /\ nread' = nread + 1]_vars

\* A call found nothing pending and blocked; a driver event had been read
\* by the capture loop before the wake signal, and the call has returned
\* the sentinel on reading the echoed SYN_CONFIG.
C14_Witness ==
    /\ poll_ret = <<2147483647>> /\ pc = "idle"
    /\ last_ev.code = "SYN_CONFIG" /\ nread = 1
    /\ call_pending = {}
    /\ nwake = 1 /\ raw_q = <<>> /\ ncap >= 1
    /\ cap_pc = "run"

(***************************************************************************)
(* Properties of poll_thread (checked under SpecCapture)                   *)
(***************************************************************************)
AccelCodes == {EVENT_TYPE_ACCEL_X, EVENT_TYPE_ACCEL_Y, EVENT_TYPE_ACCEL_Z}

\* the acceleration events of a sequence of records, in their order
AccelEvents(q) == SelectSeq(q, LAMBDA e : e.type = "EV_ABS" /\ e.code \in AccelCodes)

\* what a step appended to the uinput device
Mirrored == SubSeq(sink', Len(sink) + 1, Len(sink'))

\* poll_thread handles a record in this step
CaptureStep == ncap' = ncap + 1

\* C17: poll_thread writes acceleration events to the uinput device in a
\* step if and only if the record it handles is an EV_SYN, the
\* acceleration bit is in new_sensors (set since the last EV_SYN) and
\* SENSORS_ACCELERATION is in active_sensors as read for that record; what
\* it writes then is the X, Y, Z of filter_sensors[ID_A]; no other step
\* writes any, and none is written while active_sensors is only
\* SENSORS_ORIENTATION.
C17_AccelerationGate ==
    /\ [][CaptureStep =>
            /\ Len(sink') >= Len(sink) /\ SubSeq(sink', 1, Len(sink)) = sink
            /\ (AccelEvents(Mirrored) /= <<>>) <=>
                    (/\ cap_ev'.ev.type = "EV_SYN"
                     /\ ID_A \in cap_new
                     /\ ID_A \in active_sensors)
            /\ AccelEvents(Mirrored) /= <<>> =>
                    AccelEvents(Mirrored) =
                        <<Sent("EV_ABS", EVENT_TYPE_ACCEL_X, filter_sensors[ID_A][1]),
                          Sent("EV_ABS", EVENT_TYPE_ACCEL_Y, filter_sensors[ID_A][2]),
                          Sent("EV_ABS", EVENT_TYPE_ACCEL_Z, filter_sensors[ID_A][3])>>
            /\ cap_ev'.ev.type = "EV_SYN" => ID_A \notin cap_new']_vars
    /\ [][~CaptureStep => AccelEvents(sink') = AccelEvents(sink)]_vars
    /\ [][active_sensors = {ID_O} => AccelEvents(sink') = AccelEvents(sink)]_vars

\* Acceleration was enabled, an X value was read and the EV_SYN after it
\* has put the acceleration group on the uinput device.
C17_Witness ==
    /\ cap_ev.ev.type = "EV_SYN"
    /\ ID_A \in active_sensors
    /\ Len(AccelEvents(sink)) = 3
    /\ AccelEvents(sink)[1].value = 7
    /\ ID_A \notin cap_new

\* the sensors whose group poll_thread writes when it handles an EV_SYN now
MirroredSensors ==
    {i \in cap_new : Group(filter_sensors, i, active_sensors) /= <<>>}

\* C20 as stated: whatever the interleaving of the devices' records, an
\* EV_SYN read from one device never makes poll_thread write the group of
\* a sensor for which another device has delivered field values that its
\* own EV_SYN has not closed yet.
C20_Original ==
    [][(CaptureStep /\ cap_ev'.ev.type = "EV_SYN") =>
            \A d \in DOMAIN dDriverList :
                d /= cap_ev'.dev => unsynced[d] \cap MirroredSensors = {}]_vars

(***************************************************************************)
(* The accelerometer end to end (checked under SpecPipe)                   *)
(***************************************************************************)
\* Only SENSORS_ACCELERATION is enabled; the accelerometer has delivered
\* four records, the last an EV_SYN, that leave X = 1000, Y = 0, Z = 0;
\* poll_thread has handled them.
OneG ==
    /\ active_sensors = {ID_A}
    /\ ncap = 4
    /\ cap_ev.ev.type = "EV_SYN"
    /\ filter_sensors[ID_A] = <<1000, 0, 0>>
    /\ cap_new = {}

\* data__poll has read four records, one group, and the uinput device
\* holds no more
OneGroupRead == nread = 4 /\ sink = <<>>

\* |x - 9.81| <= 0.005
IsNineEightyOne(x) ==
    /\ Leq(<<1961, 200>>, x)
    /\ Leq(x, <<1963, 200>>)

\* C18: with only Acceleration enabled and X = 1000, Y = 0, Z = 0 and an
\* EV_SYN delivered, the first data__poll call returns ID_A with one
\* sample of sensor SENSORS_ACCELERATION and vector
\* (1000 * GRAVITY_EARTH / LSG, 0, 0), which is 9.80665, 9.81 to two
\* decimals, and leaves nothing pending; the next data__poll call finds
\* nothing pending, goes to read() with no record to read, and cannot
\* return.
C18_EndToEnd ==
    /\ [][(OneG /\ pc = "read" /\ pc' = "idle" /\ prev_ret = <<>>
                /\ OneGroupRead') =>
            /\ poll_ret' = <<ID_A>>
            /\ Len(values') = 1
            /\ values'[1].sensor = {ID_A}
            /\ values'[1].v = <<(<<196133, 20000>>), Zero, Zero>>
            /\ IsNineEightyOne(values'[1].v[1])
            /\ pendingSensors' = {}]_vars
    /\ [][(OneG /\ OneGroupRead /\ pc = "idle" /\ poll_ret = <<ID_A>>
                /\ prev_ret = <<>> /\ prev_ret' = poll_ret) =>
            /\ pc' = "read"
            /\ poll_ret' = <<>>
            /\ values' = <<>>]_vars
    /\ [][(OneG /\ OneGroupRead /\ pc = "read" /\ prev_ret = <<ID_A>>) =>
            pc' = "read" /\ poll_ret' = <<>>]_vars

\* The first call has returned the acceleration sample and the second call
\* sits in read() on the empty uinput device.
C18_Witness ==
    /\ OneG
    /\ OneGroupRead
    /\ pc = "read"
    /\ prev_ret = <<ID_A>>
    /\ sensors[ID_A].v = <<(<<196133, 20000>>), Zero, Zero>>
    /\ pendingSensors = {}

(***************************************************************************)
(* The proximity conversion (checked under SpecProx)                       *)
(***************************************************************************)
\* data__poll reads a proximity record in this step
ProxStep ==
    /\ nread' = nread + 1
    /\ last_ev'.type = "EV_ABS" /\ last_ev'.code = EVENT_TYPE_PROXIMITY

\* C19: whatever raw value r a proximity record carries, data__poll
\* stores the distance 0 when r <= 30 and exactly 6.0 when r >= 31 (the
\* float product r * CONVERT_P compared with 6.0f decides the same way);
\* the stored distance and the distance of every sample returned for
\* SENSORS_PROXIMITY is never anything but 0 or 6.0.
C19_ProximityQuantized ==
    /\ [][ProxStep =>
            LET r == last_ev'.value IN
            /\ r <= 30 => sensors'[ID_P].v[1] = Zero
            /\ r >= 31 => sensors'[ID_P].v[1] = <<6, 1>>
            /\ (r <= 30) <=> Leq(ScaleF32(r, CONVERT_P), <<6, 1>>)
            /\ ID_P \in new_sensors']_vars
    /\ [](sensors[ID_P].v[1] \in {Zero, <<6, 1>>})
    /\ [](poll_ret = <<ID_P>> =>
            /\ Len(values) = 1
            /\ values[1].sensor = {ID_P}
            /\ values[1].v[1] = (IF last_raw[EVENT_TYPE_PROXIMITY] <= 30
                                  THEN Zero ELSE <<6, 1>>))

\* The raw value 30, whose float product with CONVERT_P rounds to 6.0f,
\* was the last one read before the boundary and has been returned as 0.
C19_Witness ==
    /\ poll_ret = <<ID_P>>
    /\ last_raw[EVENT_TYPE_PROXIMITY] = 30
    /\ last_ev.type = "EV_SYN"
    /\ nread >= 2
    /\ values[1].v[1] = Zero

\* the codes of the field events of sensor i
SensorCodes(i) ==
    CASE i = ID_A -> AccelCodes
      [] i = ID_M -> {EVENT_TYPE_MAGV_X, EVENT_TYPE_MAGV_Y, EVENT_TYPE_MAGV_Z}
      [] i = ID_O -> {EVENT_TYPE_YAW, EVENT_TYPE_PITCH, EVENT_TYPE_ROLL}
      [] i = ID_T -> {EVENT_TYPE_TEMPERATURE}
      [] i = ID_P -> {EVENT_TYPE_PROXIMITY}
      [] i = ID_L -> {EVENT_TYPE_LIGHT}
      [] OTHER -> {}

\* the field events of sensor i in a sequence of records, in their order
FieldEvents(q, i) ==
    SelectSeq(q, LAMBDA e : e.type \in {"EV_ABS", "EV_LED"} /\ e.code \in SensorCodes(i))

\* the field events of the group of sensor i, from the buffered values f
GroupFields(f, i) ==
    CASE i = ID_M -> <<Sent("EV_ABS", EVENT_TYPE_MAGV_X, f[ID_M][1]),
                       Sent("EV_ABS", EVENT_TYPE_MAGV_Y, f[ID_M][2]),
                       Sent("EV_ABS", EVENT_TYPE_MAGV_Z, f[ID_M][3])>>
      [] i = ID_O -> <<Sent("EV_ABS", EVENT_TYPE_YAW, f[ID_O][1]),
                       Sent("EV_ABS", EVENT_TYPE_PITCH, f[ID_O][2]),
                       Sent("EV_ABS", EVENT_TYPE_ROLL, f[ID_O][3])>>
      [] i = ID_T -> <<Sent("EV_ABS", EVENT_TYPE_TEMPERATURE, f[ID_T][1])>>
      [] i = ID_P -> <<Sent("EV_ABS", EVENT_TYPE_PROXIMITY, f[ID_P][1])>>
      [] i = ID_L -> <<Sent("EV_LED", EVENT_TYPE_LIGHT, f[ID_L][1])>>
      [] OTHER -> <<>>

\* C21 as stated: when poll_thread handles an EV_SYN, the uinput device
\* receives the field events of each of the magnetic, orientation,
\* temperature, proximity and light sensors, once and with the buffered
\* values, if the sensor's bit is in new_sensors, and none of them if it
\* is not; new_sensors is empty afterwards.
C21_Original ==
    [][(CaptureStep /\ cap_ev'.ev.type = "EV_SYN") =>
            /\ \A i \in {ID_M, ID_O, ID_T, ID_P, ID_L} :
                    FieldEvents(Mirrored, i) =
                        (IF i \in cap_new THEN GroupFields(filter_sensors, i) ELSE <<>>)
            /\ cap_new' = {}]_vars

(***************************************************************************)
(* Properties of the device groups of control__activate (checked under     *)
(* Spec)                                                                   *)
(***************************************************************************)
\* the first operation of the last call that failed
FirstFailed == CHOOSE i \in FailedOps : \A j \in FailedOps : i <= j

\* C22 as stated: when an open or an ioctl of a control__activate call
\* fails, the call opens and commands no device after it, and returns the
\* error of that first failure.
C22_Original ==
    (LastIsActivate /\ FailedOps /= {}) =>
        /\ \A j \in 1 .. Len(ctl_ops) :
                j > FirstFailed => ctl_ops[j].op \notin {"open", "ioctl"}
        /\ ctl_ret = ctl_ops[FirstFailed].res

\* new_enabled and changed_enabled as the last control__activate call
\* computed them
CallNewEnabled ==
    NewEnabled(NewActive(ctl_call.old_active, ctl_call.handle, ctl_call.enabled))

CallChanged == ChangedEnabled(ctl_call.old_drivers, CallNewEnabled)

\* the sensor bits that make control__activate handle the group of device d
GroupBits(d) ==
    CASE d = ID_LIS -> SENSORS_ACCELERATION
      [] d = ID_SFH -> SENSORS_PROXIMITY
      [] d = ID_AKM -> SENSORS_ORIENTATION \cup SENSORS_TEMPERATURE
                          \cup SENSORS_MAGNETIC_FIELD
      [] OTHER -> {}

\* the last call handled the group of device d
Handled(d) ==
    /\ LastIsActivate /\ ValidHandle(ctl_call.handle)
    /\ (CallChanged \cap GroupBits(d)) /= {}

OpsOn(d, name) == {i \in 1 .. Len(ctl_ops) : ctl_ops[i].dev = d /\ ctl_ops[i].op = name}

\* C23: after control__activate has handled the group of a device, the
\* device's handle is closed when no bit of the device's dDriverList mask
\* is in new_enabled, and otherwise the call has not closed it (it is open
\* when it was open before or when the call opened it); nothing but the
\* bits of that mask decides, and the handle of a device whose group was
\* not handled is as the call found it.
C23_IdleClose ==
    LastIsActivate =>
        \A d \in DOMAIN dDriverList :
            IF Handled(d)
            THEN IF (dDriverList[d].mask \cap CallNewEnabled) = {}
                 THEN dev_fd[d] = -1
                 ELSE /\ OpsOn(d, "close") = {}
                      /\ dev_fd[d] >= 0 <=>
                            \/ ctl_call.old_fd[d] >= 0
                            \/ \E i \in OpsOn(d, "open") : ctl_ops[i].res >= 0
            ELSE /\ dev_fd[d] = ctl_call.old_fd[d]
                 /\ OpsOn(d, "open") \cup OpsOn(d, "close") = {}

\* set_active(Orientation, false) with Magnetic still active: the call
\* handled the accelerometer group and closed its handle, and handled the
\* compass group and left its handle open.
C23_Witness ==
    /\ LastIsActivate /\ ctl_call.handle = ID_O /\ ~ ctl_call.enabled
    /\ Handled(ID_LIS) /\ Handled(ID_AKM)
    /\ ctl_call.old_fd[ID_LIS] >= 0 /\ dev_fd[ID_LIS] = -1
    /\ OpsOn(ID_LIS, "close") /= {}
    /\ ctl_call.old_fd[ID_AKM] >= 0 /\ dev_fd[ID_AKM] >= 0
    /\ ID_M \in active_sensors

\* C24 as stated: between calls the accelerometer handle is open exactly
\* when SENSORS_ACCELERATION is in active_drivers, and the compass handle
\* exactly when a magnetic, orientation or temperature bit is.
C24_Original ==
    /\ dev_fd[ID_LIS] >= 0 <=> (active_drivers \cap dDriverList[ID_LIS].mask) /= {}
    /\ dev_fd[ID_AKM] >= 0 <=> (active_drivers \cap dDriverList[ID_AKM].mask) /= {}

\* C27 as stated: between calls the power state the accelerometer driver
\* last accepted (off at the start) is on exactly when
\* SENSORS_ACCELERATION is in active_drivers.
C27_Original ==
    kxtf9_enabled <=> (active_drivers \cap SENSORS_ACCELERATION) /= {}

(***************************************************************************)
(* Records without a case (checked under SpecStray)                        *)
(***************************************************************************)
\* data__poll has a case that acts on the record
ActsInPoll(ev) ==
    \/ ev.type = "EV_ABS" /\ ev.code \in KnownAbsCodes
    \/ ev.type = "EV_LED" /\ ev.code = EVENT_TYPE_LIGHT
    \/ ev.type = "EV_SYN"

\* poll_thread has a case that acts on the record
ActsInThread(ev) ==
    \/ ev.type = "EV_ABS" /\ ev.code \in (KnownAbsCodes \ {EVENT_TYPE_ORIENT_STATUS})
    \/ ev.type = "EV_LED" /\ ev.code = EVENT_TYPE_LIGHT
    \/ ev.type = "EV_SYN"

\* C26: when data__poll reads a record of a type or code it has no case
\* for, or the accelerometer's status code, the stored samples,
\* new_sensors and pendingSensors stay as they are, nothing is returned
\* and the call stays in its read loop; when poll_thread reads such a
\* record, filter_sensors and its new_sensors stay as they are and
\* nothing is written to the uinput device.
C26_StrayRecordIgnored ==
    /\ [][(nread' = nread + 1 /\ ~ ActsInPoll(last_ev')) =>
            /\ sensors' = sensors
            /\ new_sensors' = new_sensors
            /\ pendingSensors' = pendingSensors
            /\ values' = values /\ poll_ret' = poll_ret /\ poll_ret = <<>>
            /\ pc = "read" /\ pc' = "read"]_vars
    /\ [][(ncap' = ncap + 1 /\ ~ ActsInThread(cap_ev'.ev)) =>
            /\ filter_sensors' = filter_sensors
            /\ cap_new' = cap_new
            /\ sink' = sink]_vars

\* Both readers have read a stray record in the middle of a frame: after
\* a field of the accelerometer and before the boundary.
C26_Witness ==
    /\ pc = "read" /\ ~ ActsInPoll(last_ev) /\ last_ev.type /= "none"
    /\ new_sensors = {ID_A}
    /\ cap_pc = "run" /\ ~ ActsInThread(cap_ev.ev) /\ cap_ev.ev.type /= "none"
    /\ cap_new = {ID_A}

(***************************************************************************)
(* Field updates across data__poll calls (checked under SpecData)          *)
(***************************************************************************)
\* C28 as stated: when data__poll reads a boundary (an EV_SYN other than
\* SYN_CONFIG), every sensor for which it has read a field since the
\* last boundary, in this call or in an earlier one that SYN_CONFIG or a
\* read error ended, becomes pending: it is the sample returned or it is
\* in pendingSensors.
C28_Original ==
    [][(nread' = nread + 1 /\ IsBoundary(last_ev')) =>
            \A i \in owed : poll_ret' = <<i>> \/ i \in pendingSensors']_vars

(***************************************************************************)
(* The life of poll_thread                                                 *)
(***************************************************************************)
\* poll_thread has read the record control__wake wrote
SignalSeen == cap_ev.ev.type = "EV_SYN" /\ cap_ev.ev.code = "SYN_CONFIG"

\* C25 as stated (checked under SpecWake): once poll_thread has read the
\* SYN_CONFIG record of control__wake, it eventually leaves its loop and
\* exits.
C25_Original ==
    (cap_pc = "run" /\ SignalSeen) ~> (cap_pc /= "run")

\* dDriverList has this many entries
NumDrivers == Cardinality(DOMAIN dDriverList)

\* C29 as stated (checked under SpecCapture): the index with which a turn
\* of poll_thread's start-up loop reads dDriverList, and the index of every
\* open_dev and close_dev of a control__activate call, is below the number
\* of entries of dDriverList.
C29_Original ==
    /\ cap_pc = "start" => cap_i < NumDrivers
    /\ \A k \in 1 .. Len(ctl_ops) :
            ctl_ops[k].op \in {"open", "close"} => ctl_ops[k].dev < NumDrivers

====
